---- MODULE Spec2Model ----
(***************************************************************************)
(* A model of train.py: the hyperparameter search controller (__main__),   *)
(* the trial controller train() with its epoch loop, best-model tracker    *)
(* and checkpoints, the CutMix region computation (rand_bbox) and the      *)
(* output-directory collision policy (increment_path).                     *)
(*                                                                         *)
(* Strings (paths) are sequences of one-character strings, so that         *)
(* str(), int(), Path.stem, glob and re.search are computed, not assumed.  *)
(* Real numbers (the validation F1 and loss averages, the CutMix           *)
(* coefficient) are exact fractions.                                       *)
(***************************************************************************)
EXTENDS Integers, Sequences, FiniteSets, TLC

(***************************************************************************)
(* Bounds of the model.                                                    *)
(***************************************************************************)
\* most trials a search is asked to run (args.optuna_ntrials)
MaxTrials == 2
\* largest epoch count of a single run (args.epochs)
MaxEpochs == 2
\* most batches the training loader yields in an epoch
MaxTrainBatches == 1
\* image width and height are drawn from 1 .. MaxImg
MaxImg == 3

(***************************************************************************)
(* Strings.                                                                *)
(***************************************************************************)
Digits == <<"0", "1", "2", "3", "4", "5", "6", "7", "8", "9">>

IsDigit(c) == \E i \in 1..10 : Digits[i] = c

DigitVal(c) == CHOOSE i \in 0..9 : Digits[i + 1] = c

\* str(n) for n >= 0
RECURSIVE IntToStr(_)
IntToStr(n) ==
    IF n < 10 THEN <<Digits[n + 1]>>
    ELSE IntToStr(n \div 10) \o <<Digits[(n % 10) + 1]>>

\* int(s) for a string of decimal digits
RECURSIVE StrToInt(_)
StrToInt(s) ==
    IF s = <<>> THEN 0
    ELSE StrToInt(SubSeq(s, 1, Len(s) - 1)) * 10 + DigitVal(s[Len(s)])

IsPrefix(p, s) == Len(p) <= Len(s) /\ SubSeq(s, 1, Len(p)) = p

\* s.rfind(c), 1-based; 0 when c does not occur
RFind(s, c) ==
    IF \E i \in 1..Len(s) : s[i] = c
    THEN CHOOSE i \in 1..Len(s) : s[i] = c /\ \A j \in (i + 1)..Len(s) : s[j] # c
    ELSE 0

SetMax(S) == CHOOSE x \in S : \A y \in S : y <= x

SetMin(S) == CHOOSE x \in S : \A y \in S : x <= y

(***************************************************************************)
(* increment_path (train.py 73-88) and the library calls it makes.         *)
(***************************************************************************)
\* os.path.join(model_dir, args.name), both single path components
JoinPath(dir, name) == dir \o <<"/">> \o name

\* Path.name: the final component
PathName(path) == SubSeq(path, RFind(path, "/") + 1, Len(path))

\* Path.stem: the final component without its last suffix
PathStem(path) ==
    LET name == PathName(path)
        i    == RFind(name, ".")
    IN  IF 1 < i /\ i < Len(name) THEN SubSeq(name, 1, i - 1) ELSE name

\* glob.glob(f"{path}*"): the existing entries that extend path within its directory
Glob(path, entries) ==
    { d \in entries :
        /\ IsPrefix(path, d)
        /\ \A k \in (Len(path) + 1)..Len(d) : d[k] # "/" }

\* one pattern character of the regular expression against one character
ReCharMatch(p, c) == IF p = "." THEN TRUE ELSE p = c

\* the pattern stem(\d+) matches d at position p
ReMatchAt(stem, d, p) ==
    /\ p + Len(stem) <= Len(d)
    /\ \A k \in 1..Len(stem) : ReCharMatch(stem[k], d[p + k - 1])
    /\ IsDigit(d[p + Len(stem)])

\* the end of the run of digits that starts at position b of d
DigitRunEnd(d, b) ==
    SetMax({ e \in b..Len(d) : \A k \in b..e : IsDigit(d[k]) })

\* re.search(stem(\d+), d): <<>> for no match, else <<group 1>> of the leftmost match
ReSearch(stem, d) ==
    LET ps == { p \in 1..Len(d) : ReMatchAt(stem, d, p) }
    IN  IF ps = {} THEN <<>>
        ELSE LET b == SetMin(ps) + Len(stem)
             IN  <<SubSeq(d, b, DigitRunEnd(d, b))>>

\* n = max(i) + 1 if i else 2
NextIndex(i) == IF i # {} THEN SetMax(i) + 1 ELSE 2

increment_path(path, exist_ok, entries) ==
    IF (path \in entries /\ exist_ok) \/ (path \notin entries)
    THEN path
    ELSE LET dirs    == Glob(path, entries)
             matches == { ReSearch(PathStem(path), d) : d \in dirs }
             i       == { StrToInt(m[1]) : m \in { x \in matches : x # <<>> } }
         IN  path \o IntToStr(NextIndex(i))

(***************************************************************************)
(* Numbers.  A real is NaN, Inf or a fraction n/d with d > 0; Python       *)
(* comparisons with NaN are false.                                         *)
(***************************************************************************)
NaN == <<"nan", 0, 1>>

Inf == <<"inf", 0, 1>>

Frac(n, d) == <<"fin", n, d>>

Zero == Frac(0, 1)

One == Frac(1, 1)

IsFrac(x) == x[1] = "fin"

\* a < b
LtF(a, b) ==
    IF a = NaN \/ b = NaN THEN FALSE
    ELSE IF a = Inf THEN FALSE
    ELSE IF b = Inf THEN TRUE
    ELSE a[2] * b[3] < b[2] * a[3]

\* a == b
EqF(a, b) ==
    IF a = NaN \/ b = NaN THEN FALSE
    ELSE IF a = Inf \/ b = Inf THEN a = b
    ELSE a[2] * b[3] = b[2] * a[3]

LeF(a, b) == LtF(a, b) \/ EqF(a, b)

\* a + b
AddF(a, b) ==
    IF a = NaN \/ b = NaN THEN NaN
    ELSE IF a = Inf \/ b = Inf THEN Inf
    ELSE Frac(a[2] * b[3] + b[2] * a[3], a[3] * b[3])

\* a / count for an integer count > 0
DivF(a, count) == IF IsFrac(a) THEN Frac(a[2], a[3] * count) ELSE a

\* the latest value instead of the smaller one
MutPyMinLast(a, b) == b

\* Python's min(a, b): b only when b < a
PyMin(a, b) == IF LtF(b, a) THEN b ELSE a

(***************************************************************************)
(* rand_bbox (train.py 90-107) and the CutMix coefficient (train.py 209).  *)
(***************************************************************************)
\* no clamping to the image
MutClipNone(x, lo, hi) == x

\* np.clip(x, lo, hi)
Clip(x, lo, hi) == IF x < lo THEN lo ELSE IF x > hi THEN hi ELSE x

\* Python's floor division by 2 of a non-negative integer
Half(n) == n \div 2

\* rand_bbox with its random draws given: cut_h = int(H * sqrt(1 - lam)), cy = randint(H)
rand_bbox(W, H, cut_h, cy) ==
    [ bbx1 |-> 0,
      bby1 |-> Clip(cy - Half(cut_h), 0, H),
      bbx2 |-> W,
      bby2 |-> Clip(cy + Half(cut_h), 0, H) ]

\* lam = 1 - ((bbx2 - bbx1) * (bby2 - bby1) / (inputs.size()[-1] * inputs.size()[-2]))
CutMixLam(b, W, H) ==
    Frac(H * W - (b.bbx2 - b.bbx1) * (b.bby2 - b.bby1), H * W)

\* the CutMix locals of train() before any batch was blended
NoCut == [ran |-> FALSE, bbx1 |-> 0, bby1 |-> 0, bbx2 |-> 0, bby2 |-> 0, lam |-> One]

(***************************************************************************)
(* Configurations: the command line, the dataset and the model directory.  *)
(***************************************************************************)
\* grid_image(..., n=16, ...): the first validation batch must hold n images
GridN == 16

\* args.name
Names == { <<"e">>, <<"e", ".", "v">> }

\* args.model_dir
ModelDirs == { <<"m">> }

\* the entries of the model directory before the program starts: what earlier runs
\* of the program left there
InitialEntries(path) == { {}, {path}, {path, path \o <<"2">>} }

\* args.valid_batch_size
ValBatchSizes == { GridN \div 4, GridN }

\* len(val_set): less than one batch of GridN, one batch and a rest, two batches
ValSetSizes == { GridN \div 4, GridN + GridN \div 4, 2 * GridN }

\* len(val_set) of the trials of a search
SearchValSetSizes == { GridN \div 4, GridN + GridN \div 4 }

\* args.batch_size
TrainBatchSizes == { 4 }

\* len(train_set)
TrainSetSizes == { 4 * MaxTrainBatches + 1 }

\* args.beta: CutMix disabled (the default, -1) or enabled
Betas == { -1, 1 }

\* args.resize of a complete run
Resizes == { <<1, 2>> }

\* args.resize when only the training loop is explored
AllResizes == (1..MaxImg) \X (1..MaxImg)

\* values trial.suggest_loguniform('lr', ...) returns
OptunaLrs == { "1e-3" }

\* args.optuna_optimizer
OptunaOptimizers == { "SGD" }

\* the macro F1 of one batch
F1Vals == { Frac(0, 2), Frac(1, 2), Frac(2, 2) }

\* the loss of one batch
LossVals == { Frac(0, 1), Frac(1, 1), NaN }

\* (labels == preds).sum() of a batch of n samples whose macro F1 is f1: none right
\* at F1 0, all right at F1 1, and in between a count in between
Correct(f1, n) == (f1[2] * n) \div f1[3]

\* every command line, given the search toggle, the epoch counts and the image sizes
Configs(optuna, ntrials, epochs, resizes) ==
    { [ optuna |-> optuna, optuna_ntrials |-> n, optuna_epoch_min |-> 1,
        optuna_epoch_max |-> 2, epochs |-> e, lr |-> "1e-3",
        optimizer |-> "SGD", beta |-> b, batch_size |-> bs,
        valid_batch_size |-> vbs, resize |-> r, name |-> nm, model_dir |-> md ] :
      n \in ntrials, e \in epochs, b \in Betas, bs \in TrainBatchSizes,
      vbs \in ValBatchSizes, r \in resizes, nm \in Names, md \in ModelDirs }

(***************************************************************************)
(* State.                                                                  *)
(***************************************************************************)
VARIABLES
    pc,             \* where the program is
    args,           \* the parsed command line (train_optuna assigns to it)
    data,           \* len(train_set), len(val_set)
    fs,             \* the entries of the model directory
    files,          \* per entry: what config.json, best.pth and last.pth hold
    artifact,       \* the search artifact optuna_<name>_<value>.json: <<>> or <<content>>
    study,          \* the finished trials of the optuna study
    ncalls,         \* calls of train() so far
    save_dir,       \* train(): save_dir
    epoch,          \* train(): epoch
    idx,            \* train(): training batches of this epoch processed
    best_val_f1,    \* train(): best_val_f1
    best_val_loss,  \* train(): best_val_loss
    val,            \* train(): the validation pass's accumulators and figure
    cut,            \* train(): bbx1, bby1, bbx2, bby2, lam of the last blended batch
    logged,         \* the "Val/f1" scalars the logger holds, one per epoch
    lr_steps,       \* scheduler.step() calls
    ret,            \* what the last train() returned
    error           \* the exception that ended the process, or "none"

vars == << pc, args, data, fs, files, artifact, study, ncalls, save_dir, epoch, idx,
           best_val_f1, best_val_loss, val, cut, logged, lr_steps, ret, error >>

trial_vars == << save_dir, epoch, idx, best_val_f1, best_val_loss, val, cut,
                 logged, lr_steps >>

NoFile == <<"none", 0, 0>>

OldFile == <<"old", 0, 0>>

\* what a checkpoint or config written by call c of train() in epoch e holds
Written(c, e) == <<"trial", c, e>>

EmptyDir == [config |-> NoFile, best |-> NoFile, last |-> NoFile]

OldDir == [config |-> OldFile, best |-> OldFile, last |-> OldFile]

ValReset == [loss_items |-> Zero, acc_items |-> 0, f1_items |-> Zero, vidx |-> 0,
             figure |-> FALSE]

\* len(DataLoader(dataset, batch_size, drop_last=True))
LoaderLen(n, batch_size) == n \div batch_size

TrainLoaderLen == LoaderLen(data.train_set, args.batch_size)

ValLoaderLen == LoaderLen(data.val_set, args.valid_batch_size)

\* samples the validation pass has accumulated over: every batch is a full one
SamplesValidated == val.vidx * args.valid_batch_size

InitWith(configs, val_sets) ==
    /\ pc = "main"
    /\ args \in configs
    /\ data \in [train_set : TrainSetSizes, val_set : val_sets]
    /\ fs \in InitialEntries(JoinPath(args.model_dir, args.name))
    /\ files = [d \in fs |-> OldDir]
    /\ artifact = <<>>
    /\ study = <<>>
    /\ ncalls = 0
    /\ save_dir = <<>>
    /\ epoch = 0
    /\ idx = 0
    /\ best_val_f1 = Zero
    /\ best_val_loss = Inf
    /\ val = ValReset
    /\ cut = NoCut
    /\ logged = <<>>
    /\ lr_steps = 0
    /\ ret = Zero
    /\ error = "none"

\* python train.py --optuna 1 ..., and python train.py ...
Init ==
    InitWith(Configs(TRUE, 0..MaxTrials, {1}, Resizes)
             \cup Configs(FALSE, {1}, 0..1, Resizes), SearchValSetSizes)

(***************************************************************************)
(* __main__ (train.py 351-366): the search controller.                     *)
(***************************************************************************)
\* if args.optuna: ... else: train(data_dir, model_dir, args)
Main ==
    /\ pc = "main"
    /\ pc' = IF args.optuna THEN "optimize" ELSE "call"
    /\ UNCHANGED << args, data, fs, files, artifact, study, ncalls, trial_vars, ret, error >>

\* study.optimize starts the next trial: train_optuna samples and calls train()
TrainOptuna ==
    /\ pc = "optimize"
    /\ Len(study) < args.optuna_ntrials
    /\ \E e \in args.optuna_epoch_min..args.optuna_epoch_max,
          l \in OptunaLrs, o \in OptunaOptimizers :
          args' = [args EXCEPT !.epochs = e, !.lr = l, !.optimizer = o]
    /\ pc' = "call"
    /\ UNCHANGED << data, fs, files, artifact, study, ncalls, trial_vars, ret, error >>

\* a search that skips a failed trial, as study.optimize(..., catch=(Exception,)) would
MutAfterErrorSkip(optuna) == IF optuna THEN "optimize" ELSE "aborted"

\* an exception in train() is caught nowhere: study.optimize re-raises it
AfterError(optuna) == "aborted"

\* train() returned to train_optuna: the study records the trial
TrialComplete ==
    /\ pc = "returned"
    /\ args.optuna
    /\ study' = Append(study,
           [ number |-> Len(study),
             params |-> [n_epochs |-> args.epochs, lr |-> args.lr,
                         optimizer |-> args.optimizer],
             value |-> ret ])
    /\ pc' = "optimize"
    /\ UNCHANGED << args, data, fs, files, artifact, ncalls, trial_vars, ret, error >>

\* the latest trial instead of the best one
MutBestTrialLast(st) == st[Len(st)]

\* study.best_trial for direction='maximize': the first trial of the largest value
BestTrial(st) ==
    st[CHOOSE i \in 1..Len(st) :
          /\ \A j \in 1..Len(st) : LeF(st[j].value, st[i].value)
          /\ \A j \in 1..(i - 1) : LtF(st[j].value, st[i].value)]

\* study.optimize returned: write the best trial's parameters
SearchFinish ==
    /\ pc = "optimize"
    /\ Len(study) >= args.optuna_ntrials
    /\ IF study = <<>>
       THEN /\ error' = "ValueError"
            /\ pc' = "aborted"
            /\ UNCHANGED artifact
       ELSE /\ artifact' = << [ name |-> args.name, value |-> BestTrial(study).value,
                                params |-> BestTrial(study).params ] >>
            /\ pc' = "done"
            /\ UNCHANGED error
    /\ UNCHANGED << args, data, fs, files, study, ncalls, trial_vars, ret >>

\* the single run's train() returned
MainExit ==
    /\ pc = "returned"
    /\ ~args.optuna
    /\ pc' = "done"
    /\ UNCHANGED << args, data, fs, files, artifact, study, ncalls, trial_vars, ret, error >>

(***************************************************************************)
(* train() (train.py 109-301): the trial controller and its epoch loop.    *)
(***************************************************************************)
\* the exception propagates out of train(), whose locals and logger are gone
Raise(e) ==
    /\ error' = e
    /\ pc' = AfterError(args.optuna)
    /\ save_dir' = <<>>
    /\ epoch' = 0
    /\ idx' = 0
    /\ best_val_f1' = Zero
    /\ best_val_loss' = Inf
    /\ val' = ValReset
    /\ cut' = NoCut
    /\ logged' = <<>>
    /\ lr_steps' = 0

\* open(os.path.join(save_dir, 'config.json'), 'w') after SummaryWriter made save_dir
WriteConfig(entries, fl, dir, content) ==
    [ d \in entries \cup {dir} |->
        IF d = dir
        THEN [ (IF d \in entries THEN fl[d] ELSE EmptyDir) EXCEPT !.config = content ]
        ELSE fl[d] ]

\* lines 110-188: seed, save_dir, loaders, model, logger, config.json, the Best State
TrainBegin ==
    /\ pc = "call"
    /\ ncalls' = ncalls + 1
    /\ save_dir' = increment_path(JoinPath(args.model_dir, args.name), FALSE, fs)
    /\ fs' = fs \cup {save_dir'}
    /\ files' = WriteConfig(fs, files, save_dir', Written(ncalls', 0))
    /\ best_val_f1' = Zero
    /\ best_val_loss' = Inf
    /\ pc' = "epoch"
    /\ UNCHANGED << args, data, artifact, study, epoch, idx, val, cut, logged, lr_steps,
                    ret, error >>

\* one epoch too many
MutLoopContinuesInclusive(e, epochs) == e <= epochs

\* for epoch in range(args.epochs)
LoopContinues(e, epochs) == e < epochs

\* lines 189-194: the next epoch starts with its training phase
EpochBegin ==
    /\ pc = "epoch"
    /\ LoopContinues(epoch, args.epochs)
    /\ idx' = 0
    /\ pc' = "train"
    /\ UNCHANGED << args, data, fs, files, artifact, study, ncalls, save_dir, epoch,
                    best_val_f1, best_val_loss, val, cut, logged, lr_steps, ret, error >>

\* lines 195-249: one training batch, blended by CutMix or not
TrainBatch ==
    /\ pc = "train"
    /\ idx < TrainLoaderLen
    /\ \/ /\ args.beta > 0
          /\ \E cut_h \in 0..args.resize[2], cy \in 0..(args.resize[2] - 1) :
                LET b == rand_bbox(args.resize[1], args.resize[2], cut_h, cy)
                IN  cut' = [ ran |-> TRUE, bbx1 |-> b.bbx1, bby1 |-> b.bby1,
                             bbx2 |-> b.bbx2, bby2 |-> b.bby2,
                             lam |-> CutMixLam(b, args.resize[1], args.resize[2]) ]
       \/ UNCHANGED cut
    /\ idx' = idx + 1
    /\ UNCHANGED << pc, args, data, fs, files, artifact, study, ncalls, save_dir, epoch,
                    best_val_f1, best_val_loss, val, logged, lr_steps, ret, error >>

\* lines 250-260: the training loader is exhausted; the schedule steps outside a search
TrainEnd ==
    /\ pc = "train"
    /\ idx >= TrainLoaderLen
    /\ lr_steps' = IF ~args.optuna THEN lr_steps + 1 ELSE lr_steps
    /\ val' = ValReset
    /\ pc' = "val"
    /\ UNCHANGED << args, data, fs, files, artifact, study, ncalls, save_dir, epoch, idx,
                    best_val_f1, best_val_loss, cut, logged, ret, error >>

\* lines 261-279: one validation batch; the first one is drawn by grid_image
ValBatch ==
    /\ pc = "val"
    /\ val.vidx < ValLoaderLen
    /\ \E loss \in LossVals, f1 \in F1Vals :
          LET acc == [ val EXCEPT !.loss_items = AddF(@, loss),
                                  !.acc_items = @ + Correct(f1, args.valid_batch_size),
                                  !.f1_items = AddF(@, f1) ]
          IN  IF ~val.figure /\ ~(GridN <= args.valid_batch_size)
              THEN Raise("AssertionError")
              ELSE /\ val' = [ acc EXCEPT !.vidx = @ + 1, !.figure = TRUE ]
                   /\ UNCHANGED << pc, error, save_dir, epoch, idx, best_val_f1,
                                   best_val_loss, cut, logged, lr_steps >>
    /\ UNCHANGED << args, data, fs, files, artifact, study, ncalls, ret >>

\* if val_f1 > best_val_f1
Improves(val_f1, best) == LtF(best, val_f1)

\* last.pth only in the epochs that do not write best.pth
MutSaveLastUnlessBest(fl, dir, improved, content) ==
    IF improved THEN fl ELSE [fl EXCEPT ![dir].last = content]

\* torch.save(model.module.state_dict(), f"{save_dir}/best.pth")
SaveBest(fl, dir, content) == [fl EXCEPT ![dir].best = content]

\* torch.save(model.module.state_dict(), f"{save_dir}/last.pth"), in every epoch
SaveLast(fl, dir, improved, content) == [fl EXCEPT ![dir].last = content]

\* lines 281-300: the split's averages, the Best State, the checkpoints, the log
ValEnd ==
    /\ pc = "val"
    /\ val.vidx >= ValLoaderLen
    /\ IF ValLoaderLen = 0
       THEN /\ Raise("ZeroDivisionError")
            /\ UNCHANGED files
       ELSE LET val_loss == DivF(val.loss_items, ValLoaderLen)
                val_f1   == DivF(val.f1_items, ValLoaderLen)
                improved == Improves(val_f1, best_val_f1)
                content  == Written(ncalls, epoch)
                best_fl  == IF improved THEN SaveBest(files, save_dir, content) ELSE files
            IN  \/ /\ improved
                   /\ Raise("OSError")
                   /\ UNCHANGED files
                \/ /\ files' = best_fl
                   /\ Raise("OSError")
                \/ /\ best_val_loss' = PyMin(best_val_loss, val_loss)
                   /\ best_val_f1' = IF improved THEN val_f1 ELSE best_val_f1
                   /\ files' = SaveLast(best_fl, save_dir, improved, content)
                   /\ logged' = Append(logged, val_f1)
                   /\ epoch' = epoch + 1
                   /\ pc' = "epoch"
                   /\ UNCHANGED << error, save_dir, idx, val, cut, lr_steps >>
    /\ UNCHANGED << args, data, fs, artifact, study, ncalls, ret >>

\* line 301: return best_val_f1; the locals of train() and its logger are gone
TrainReturn ==
    /\ pc = "epoch"
    /\ ~LoopContinues(epoch, args.epochs)
    /\ ret' = best_val_f1
    /\ pc' = "returned"
    /\ save_dir' = <<>>
    /\ epoch' = 0
    /\ idx' = 0
    /\ best_val_f1' = Zero
    /\ best_val_loss' = Inf
    /\ val' = ValReset
    /\ cut' = NoCut
    /\ logged' = <<>>
    /\ lr_steps' = 0
    /\ UNCHANGED << args, data, fs, files, artifact, study, ncalls, error >>

Next ==
    \/ Main
    \/ TrainOptuna
    \/ TrainBegin
    \/ EpochBegin
    \/ TrainBatch
    \/ TrainEnd
    \/ ValBatch
    \/ ValEnd
    \/ TrainReturn
    \/ TrialComplete
    \/ SearchFinish
    \/ MainExit

Spec == Init /\ [][Next]_vars

(***************************************************************************)
(* A single run, python train.py --epochs e ..., of up to MaxEpochs epochs *)
(* over every validation split.                                            *)
(***************************************************************************)
InitTrial == InitWith(Configs(FALSE, {1}, 0..MaxEpochs, Resizes), ValSetSizes)

NextTrial ==
    \/ Main
    \/ TrainBegin
    \/ EpochBegin
    \/ TrainBatch
    \/ TrainEnd
    \/ ValBatch
    \/ ValEnd
    \/ TrainReturn
    \/ MainExit

SpecTrial == InitTrial /\ [][NextTrial]_vars

(***************************************************************************)
(* A single run of one epoch over every image size up to MaxImg x MaxImg:  *)
(* the CutMix branch of the training loop.                                 *)
(***************************************************************************)
InitCutMix ==
    InitWith(Configs(FALSE, {1}, {1}, AllResizes), { GridN + GridN \div 4 })

SpecCutMix == InitCutMix /\ [][NextTrial]_vars

(***************************************************************************)
(* Properties.                                                             *)
(***************************************************************************)
\* train() is running: between its set-up and its return
InTrial == pc \in {"epoch", "train", "val"}

\* a validation pass ended and the epoch's results were stored
EpochStored == pc = "val" /\ pc' = "epoch"

\* train() sets up its output directory
TrialStarts == pc = "call" /\ pc' = "epoch"

\* train() returns
TrialReturns == pc = "epoch" /\ pc' = "returned"

\* the exceptions that end a trial
TrialErrors == {"AssertionError", "ZeroDivisionError", "OSError"}

\* the file was written by call c of train()
WrittenBy(file, c) == file[1] = "trial" /\ file[2] = c

\* C1: within one run of train(), no step lowers best_val_f1 and no step raises
\* best_val_loss (which start at 0 and +infinity).
C1_BestStateMonotone ==
    [][ (InTrial /\ InTrial') =>
           /\ LeF(best_val_f1, best_val_f1')
           /\ LeF(best_val_loss', best_val_loss) ]_vars

\* C1's case: a second epoch with a lower F1 and a higher loss than the first
\* left the Best State at the first epoch's values.
C1_Witness ==
    /\ pc = "epoch"
    /\ epoch = 2
    /\ LtF(logged[2], logged[1])
    /\ EqF(best_val_f1, logged[1])
    /\ LtF(best_val_loss, DivF(val.loss_items, ValLoaderLen))

\* C2: an epoch writes best.pth if and only if its validation F1 is strictly
\* greater than the validation F1 of every earlier epoch of the trial (so the
\* first epoch writes it for any F1 >= 0).
C2_BestWrittenIffGreater ==
    [][ EpochStored =>
           ( files'[save_dir].best = Written(ncalls, epoch)
             <=> \A j \in 1..Len(logged) : LtF(logged[j], logged'[Len(logged')]) ) ]_vars

C4_EpochsAndReturn ==
    /\ [](pc = "val" => idx = TrainLoaderLen)
    /\ [](InTrial => Len(logged) = epoch /\ epoch <= args.epochs)
    /\ [][ TrialReturns =>
              /\ epoch = args.epochs
              /\ ret' = best_val_f1
              /\ args.epochs = 1 => EqF(ret', logged[1])
              /\ args.epochs >= 1 =>
                    /\ \E j \in 1..Len(logged) : EqF(ret', logged[j])
                    /\ \A j \in 1..Len(logged) : LeF(logged[j], ret') ]_vars

\* C4's case: a run of MaxEpochs epochs returned a validation F1 of 1/2.
C4_Witness ==
    /\ pc = "returned"
    /\ args.epochs = MaxEpochs
    /\ EqF(ret, Frac(1, 2))

\* C5: a search runs its trials one after another, each to its return, and only
\* after the last of the args.optuna_ntrials trials writes the artifact, which
\* holds the parameters of a trial of the largest returned F1.
C5_SearchPersistsBest ==
    /\ args.optuna => /\ ncalls <= args.optuna_ntrials
                      /\ Len(study) <= ncalls
                      /\ (InTrial \/ pc = "returned") => Len(study) = ncalls - 1
                      /\ pc = "done" => artifact # <<>>
    /\ artifact # <<>> =>
          /\ pc = "done"
          /\ Len(study) = args.optuna_ntrials
          /\ ncalls = args.optuna_ntrials
          /\ \E i \in 1..Len(study) :
                /\ \A j \in 1..Len(study) : LeF(study[j].value, study[i].value)
                /\ artifact[1].params = study[i].params
                /\ artifact[1].value = study[i].value

\* C5's case: a search of MaxTrials trials is over, its first trial returned more
\* than its last, and the artifact holds the first trial's parameters.
C5_Witness ==
    /\ pc = "done"
    /\ Len(study) = MaxTrials
    /\ LtF(study[MaxTrials].value, study[1].value)
    /\ study[MaxTrials].params # study[1].params
    /\ artifact[1].params = study[1].params

\* the trailing integer suffixes of the entries that extend path
TrailingSuffixes(path, entries) ==
    { StrToInt(SubSeq(d, Len(path) + 1, Len(d))) :
        d \in { x \in entries : /\ IsPrefix(path, x)
                                /\ Len(x) > Len(path)
                                /\ \A k \in (Len(path) + 1)..Len(x) : IsDigit(x[k]) } }

\* the path C6 describes
DescribedPath(path, entries) ==
    IF path \notin entries THEN path
    ELSE IF TrailingSuffixes(path, entries) = {} THEN path \o IntToStr(2)
    ELSE path \o IntToStr(SetMax(TrailingSuffixes(path, entries)) + 1)

\* C6: increment_path returns the requested path when it does not exist, and
\* else the path followed by one more than the highest trailing integer suffix
\* of the existing paths that extend it (by 2 when there is none).
C6_IncrementPathAsDescribed ==
    [][ TrialStarts =>
           save_dir' = DescribedPath(JoinPath(args.model_dir, args.name), fs) ]_vars

C8_TrialErrorAbortsSearch ==
    (args.optuna /\ error \in TrialErrors) =>
        /\ pc = "aborted"
        /\ artifact = <<>>
        /\ ncalls = Len(study) + 1

\* C8's case: the second trial of a longer search failed after its first epoch.
C8_Witness ==
    /\ args.optuna
    /\ error = "OSError"
    /\ Len(study) = 1
    /\ args.optuna_ntrials > Len(study)
    /\ \E d \in fs : files[d].last = Written(2, 0)

\* C9: a validation pass that ended has accumulated over every sample of the
\* validation split.
C9_WholeSplitValidated ==
    (pc = "epoch" /\ epoch >= 1) => SamplesValidated = data.val_set

\* C10: the output directory a trial sets up is none that existed when the
\* trial started, an earlier trial's included.
C10_FreshOutputDir ==
    [][ TrialStarts => save_dir' \notin fs ]_vars

====
